---- MODULE Spec2Model ----
(***************************************************************************)
(* Model of src/message_handler.py: the request builder                    *)
(* generate_request_message, the response parser parse_din_status_response *)
(* and the status interpreter din_status_to_32bit_signed_integer.          *)
(*                                                                         *)
(* The three functions are pure.  A behaviour is one call: Init chooses    *)
(* the function and its argument, the function's action applies it and     *)
(* records either the returned value or the raised exception.              *)
(*                                                                         *)
(* Python integers are unbounded.  They are modelled as a pair             *)
(* <<hi, lo>> of limbs standing for hi * 2^16 + lo with 0 <= lo < 2^16    *)
(* (hi carries the sign, as in two's complement), so that values around    *)
(* 2^32 stay exact.  Python strings are sequences of one-character         *)
(* strings.                                                                *)
(***************************************************************************)
EXTENDS Integers, Sequences, FiniteSets, TLC

\* Bounds of the explored inputs.
MaxCmdBits == 34
MaxPayloadBytes == 4
MaxArrayLen == 34

\* fn               the function the call is of
\* pc               "call" before the function has run, "done" after
\* raised           "none", or the message of the ValueError the call raised
\* cmd_num          the argument of generate_request_message
\* request_message  its result
\* message          the argument of parse_din_status_response
\* parsed_status    its result
\* array            the argument of din_status_to_32bit_signed_integer
\* data_field_int   its result
VARIABLES fn, pc, raised, cmd_num, request_message, message, parsed_status,
          array, data_field_int

vars == <<fn, pc, raised, cmd_num, request_message, message, parsed_status,
          array, data_field_int>>

----------------------------------------------------------------------------
\* Python's int, str and slice operations, as the three functions use them.

Limb == 2^16

\* The integer hi * 2^16 + lo, normalised.
PyInt(hi, lo) == <<hi + (lo \div Limb), lo % Limb>>

Add(a, b) == PyInt(a[1] + b[1], a[2] + b[2])

Sub(a, b) == PyInt(a[1] - b[1], a[2] - b[2])

Neg(a) == PyInt(-a[1], -a[2])

IsNeg(a) == a[1] < 0

IsZero(a) == a[1] = 0 /\ a[2] = 0

\* a >= b
Ge(a, b) == a[1] > b[1] \/ (a[1] = b[1] /\ a[2] >= b[2])

\* a << k, for k >= 0
RECURSIVE Shl(_, _)
Shl(a, k) == IF k = 0 THEN a ELSE Shl(PyInt(2 * a[1], 2 * a[2]), k - 1)

\* x & y and x | y on one limb; a negative limb is an infinite two's
\* complement string of leading ones, as Python defines & and | on negatives.
RECURSIVE BitAnd(_, _)
BitAnd(x, y) ==
    IF x = 0 \/ y = 0 THEN 0
    ELSE IF x = -1 THEN y
    ELSE IF y = -1 THEN x
    ELSE (x % 2) * (y % 2) + 2 * BitAnd(x \div 2, y \div 2)

RECURSIVE BitOr(_, _)
BitOr(x, y) ==
    IF x = 0 THEN y
    ELSE IF y = 0 THEN x
    ELSE IF x = -1 \/ y = -1 THEN -1
    ELSE (IF x % 2 = 1 \/ y % 2 = 1 THEN 1 ELSE 0) + 2 * BitOr(x \div 2, y \div 2)

And(a, b) == <<BitAnd(a[1], b[1]), BitAnd(a[2], b[2])>>

Or(a, b) == <<BitOr(a[1], b[1]), BitOr(a[2], b[2])>>

\* s[i:j] for 0 <= i, j: indices beyond the end are clamped, never an error.
Slice(s, i, j) ==
    LET lo == IF i > Len(s) THEN Len(s) ELSE i
        hi == IF j > Len(s) THEN Len(s) ELSE j
    IN  SubSeq(s, lo + 1, hi)

\* s[i:]
SliceFrom(s, i) == Slice(s, i, Len(s))

\* str(bit) for a bit 0 or 1
str(bit) == IF bit = 0 THEN "0" ELSE "1"

\* int(contact) for a character '0' or '1'
int_of_char(contact) == IF contact = "0" THEN 0 ELSE 1

\* The binary digits of a limb k >= 0, most significant first, no leading zero.
RECURSIVE Digits(_)
Digits(k) == IF k < 2 THEN <<str(k)>> ELSE Append(Digits(k \div 2), str(k % 2))

\* s.zfill(width): zeros on the left, after a leading sign character.
zfill(s, width) ==
    LET pad == [i \in 1..(width - Len(s)) |-> "0"]
    IN  IF Len(s) >= width THEN s
        ELSE IF Len(s) > 0 /\ s[1] \in {"+", "-"} THEN <<s[1]>> \o pad \o Tail(s)
        ELSE pad \o s

\* The binary digits of a >= 0.
MagDigits(a) ==
    IF a[1] = 0 THEN Digits(a[2]) ELSE Digits(a[1]) \o zfill(Digits(a[2]), 16)

\* bin(a): "0b..." and, for a negative a, "-0b..." of its magnitude.
bin(a) ==
    IF IsNeg(a) THEN <<"-", "0", "b">> \o MagDigits(Neg(a))
    ELSE <<"0", "b">> \o MagDigits(a)

\* int(s, 2) accepts s: here s holds only what the three functions pass it,
\* characters '0' and '1', and int raises ValueError on the empty string.
IsBinaryLiteral(s) == Len(s) > 0 /\ \A i \in 1..Len(s) : s[i] \in {"0", "1"}

\* int(s, 2) of an accepted s.
RECURSIVE int2(_)
int2(s) ==
    IF Len(s) = 0 THEN <<0, 0>>
    ELSE LET v == int2(SubSeq(s, 1, Len(s) - 1))
         IN  PyInt(2 * v[1], 2 * v[2] + int_of_char(s[Len(s)]))

\* int.from_bytes(b, byteorder='big') of a two-byte string
from_bytes_big(b) == PyInt(0, b[1] * 256 + b[2])

from_bytes_little(b) == PyInt(0, b[2] * 256 + b[1])

----------------------------------------------------------------------------
\* The messages of the ValueErrors the functions raise: the two the module
\* raises itself and the one int() raises on a string it cannot parse.
CommandError == "Command number should be less or equal to 32 bits long."

ArrayError == "Array length must be a less or equal than 32 bits long."

LiteralError == "invalid literal for int() with base 2"

----------------------------------------------------------------------------
\* generate_request_message(command_number)

\* b'RQ'
message_id == <<82, 81>>

\* The tag read low byte first.
int_message_id_little == from_bytes_little(message_id)

int_message_id == from_bytes_big(message_id)

bin_command_number(command_number) == zfill(SliceFrom(bin(command_number), 2), 8)

num_bits_of_command(command_number) == Len(bin_command_number(command_number))

\* The length check off by one.
command_too_long_at_32(num_bits) == num_bits >= 32

command_too_long(num_bits) == num_bits > 32

command_number_8bit(command_number) == And(command_number, PyInt(0, 255))

int_rep_0to2_bytes(command_number) ==
    Or(Shl(int_message_id, 8), command_number_8bit(command_number))

bin_rep_0to2_bytes(command_number) ==
    zfill(SliceFrom(bin(int_rep_0to2_bytes(command_number)), 2), 24)

\* The checksum without the first tag byte.
int_rep_3rd_byte_two_bytes(command_number) ==
    LET b == bin_rep_0to2_bytes(command_number)
    IN  Add(int2(Slice(b, 8, 16)), int2(Slice(b, 16, 24)))

int_rep_3rd_byte(command_number) ==
    LET b == bin_rep_0to2_bytes(command_number)
    IN  Add(Add(int2(Slice(b, 0, 8)), int2(Slice(b, 8, 16))), int2(Slice(b, 16, 24)))

int_rep_0to3_bytes(command_number) ==
    Or(Shl(int_rep_0to2_bytes(command_number), 8), int_rep_3rd_byte(command_number))

bin_rep_0to3_bytes(command_number) ==
    zfill(SliceFrom(bin(int_rep_0to3_bytes(command_number)), 2), 32)

GenerateRequestMessage ==
    /\ pc = "call"
    /\ fn = "generate_request_message"
    /\ IF command_too_long(num_bits_of_command(cmd_num))
       THEN /\ raised' = CommandError
            /\ UNCHANGED request_message
       ELSE /\ raised' = "none"
            /\ request_message' = bin_rep_0to3_bytes(cmd_num)
    /\ pc' = "done"
    /\ UNCHANGED <<fn, cmd_num, message, parsed_status, array, data_field_int>>

----------------------------------------------------------------------------
\* parse_din_status_response(response_message)

length_field(response_message) == Slice(response_message, 24, 40)

byte_lenght_of_din_status(response_message) == int2(length_field(response_message))

starting_index_of_din_status == 40

\* The length field taken as a count of bits.
din_status_count_in_bits(response_message) ==
    LET n == byte_lenght_of_din_status(response_message)
        count == n[1] * Limb + n[2]
    IN  Slice(response_message, starting_index_of_din_status,
              starting_index_of_din_status + count)

\* The length field is at most 16 bits wide, so the product fits one limb pair
\* and the slice bound is its plain value.
din_status(response_message) ==
    LET n == byte_lenght_of_din_status(response_message)
        count == (n[1] * Limb + n[2]) * 8
    IN  Slice(response_message, starting_index_of_din_status,
              starting_index_of_din_status + count)

array_din_status(response_message) ==
    LET d == din_status(response_message)
    IN  [i \in 1..Len(d) |-> int_of_char(d[i])]

\* A parser that insists on the whole 16-bit length field.
parse_raises_on_short_field(response_message) ==
    Len(length_field(response_message)) < 16

parse_raises(response_message) == ~IsBinaryLiteral(length_field(response_message))

ParseDinStatusResponse ==
    /\ pc = "call"
    /\ fn = "parse_din_status_response"
    /\ IF parse_raises(message)
       THEN /\ raised' = LiteralError
            /\ UNCHANGED parsed_status
       ELSE /\ raised' = "none"
            /\ parsed_status' = array_din_status(message)
    /\ pc' = "done"
    /\ UNCHANGED <<fn, cmd_num, request_message, message, array, data_field_int>>

----------------------------------------------------------------------------
\* din_status_to_32bit_signed_integer(response_message)

\* The length check off by one.
array_too_long_at_32(response_message) == Len(response_message) >= 32

array_too_long(response_message) == Len(response_message) > 32

bit_string(response_message) ==
    [i \in 1..Len(response_message) |-> str(response_message[i])]

unsigned_value(response_message) == int2(bit_string(response_message))

sign_bit_set(response_message) ==
    ~IsZero(And(unsigned_value(response_message),
                Shl(PyInt(0, 1), Len(response_message) - 1)))

\* The sign taken at a fixed width of 32 bits instead of the array's own.
signed_value_fixed_width(response_message) ==
    IF sign_bit_set(response_message)
    THEN Sub(unsigned_value(response_message), Shl(PyInt(0, 1), 32))
    ELSE unsigned_value(response_message)

signed_value(response_message) ==
    IF sign_bit_set(response_message)
    THEN Sub(unsigned_value(response_message), Shl(PyInt(0, 1), Len(response_message)))
    ELSE unsigned_value(response_message)

\* 0xFFFFFFFF, 0x80000000 and 0x100000000
signed_value_32bit(response_message) ==
    LET masked == And(signed_value(response_message), <<65535, 65535>>)
    IN  IF Ge(masked, <<32768, 0>>) THEN Sub(masked, <<65536, 0>>) ELSE masked

DinStatusTo32bitSignedInteger ==
    /\ pc = "call"
    /\ fn = "din_status_to_32bit_signed_integer"
    /\ IF array_too_long(array) \/ ~IsBinaryLiteral(bit_string(array))
       THEN /\ raised' = IF array_too_long(array) THEN ArrayError ELSE LiteralError
            /\ UNCHANGED data_field_int
       ELSE /\ raised' = "none"
            /\ data_field_int' = signed_value_32bit(array)
    /\ pc' = "done"
    /\ UNCHANGED <<fn, cmd_num, request_message, message, parsed_status, array>>

----------------------------------------------------------------------------
\* The arguments explored.

\* Command numbers sign * (h * 256 + low): every low byte, under a high part h
\* that is zero, a power of two or a run of ones, up to MaxCmdBits bits.
HighParts == {0} \cup UNION {{2^k, 2^(k + 1) - 1} : k \in 0..(MaxCmdBits - 9)}

Magnitudes == {PyInt(h \div 256, (h % 256) * 256 + low) : h \in HighParts, low \in 0..255}

CommandNumbers == Magnitudes \cup {Neg(m) : m \in Magnitudes}

\* The 8 characters of a byte.
ByteBits(v) == zfill(Digits(v), 8)

\* The header of the example response: "RS", then the echoed command 0x1F.
ExampleHeader == ByteBits(82) \o ByteBits(83) \o ByteBits(31)

PayloadByteValues == {0, 170, 255}

\* The strings of exactly k bytes, and of at most k bytes.
RECURSIVE ByteStrings(_)
ByteStrings(k) ==
    IF k = 0 THEN {<<>>}
    ELSE {ByteBits(v) \o t : v \in PayloadByteValues, t \in ByteStrings(k - 1)}

BodyStrings == UNION {ByteStrings(k) : k \in 0..MaxPayloadBytes}

\* Response frames: the header, bytes 3 and 4, a body, cut at any length.
FullFrames ==
    {ExampleHeader \o ByteBits(b3) \o ByteBits(b4) \o body :
        b3 \in {0, 4}, b4 \in {0, 1, 2, 4, 170}, body \in BodyStrings}

Messages == UNION {{Slice(f, 0, t) : t \in 0..Len(f)} : f \in FullFrames}

\* The array of the module's example call.
ExampleArray == <<1,0,1,0,1,0,0,1, 1,0,0,0,1,0,1,0, 1,0,1,0,0,1,1,0, 0,0,1,0,1,0,1,1>>

RECURSIVE BitSeqs(_)
BitSeqs(k) ==
    IF k = 0 THEN {<<>>}
    ELSE {<<b>> \o t : b \in {0, 1}, t \in BitSeqs(k - 1)}

BitSeqsUpTo(k) == UNION {BitSeqs(j) : j \in 0..k}

\* Bit arrays: any two leading bits, a run of equal bits, any three trailing
\* bits, of at most MaxArrayLen elements in all.
Arrays ==
    {ExampleArray} \cup
    {a \in {h \o [i \in 1..k |-> b] \o t :
                h \in BitSeqsUpTo(2), k \in 0..MaxArrayLen, b \in {0, 1},
                t \in BitSeqsUpTo(3)} : Len(a) <= MaxArrayLen}

----------------------------------------------------------------------------
Functions == {"generate_request_message", "parse_din_status_response",
              "din_status_to_32bit_signed_integer"}

Init ==
    /\ pc = "call"
    /\ raised = "none"
    /\ request_message = <<>>
    /\ parsed_status = <<>>
    /\ data_field_int = <<0, 0>>
    /\ fn \in Functions
    /\ cmd_num \in IF fn = "generate_request_message" THEN CommandNumbers ELSE {<<0, 0>>}
    /\ message \in IF fn = "parse_din_status_response" THEN Messages ELSE {<<>>}
    /\ array \in IF fn = "din_status_to_32bit_signed_integer" THEN Arrays ELSE {<<>>}

Next ==
    \/ GenerateRequestMessage
    \/ ParseDinStatusResponse
    \/ DinStatusTo32bitSignedInteger

Spec == Init /\ [][Next]_vars

----------------------------------------------------------------------------
\* What the properties below measure, computed apart from the functions.

Returned(f) == pc = "done" /\ fn = f /\ raised = "none"

Called(f) == pc = "done" /\ fn = f

\* The number whose digits, most significant first, follow acc.
RECURSIVE Horner(_, _)
Horner(acc, digits) ==
    IF digits = <<>> THEN acc ELSE Horner(2 * acc + Head(digits), Tail(digits))

\* The bits of a string of '0' and '1'.
BitsOf(s) == [i \in 1..Len(s) |-> IF s[i] = "1" THEN 1 ELSE 0]

\* Byte k (0..3) of a 32-character frame.
FrameByte(frame, k) == Horner(0, BitsOf(SubSeq(frame, 8 * k + 1, 8 * k + 8)))

\* n mod 256 of a command number
LowByte(n) == n[2] % 256

\* The w-bit two's complement value of w bits: the first bit weighs -2^(w-1).
TwosComplement(bits) == Horner(-bits[1], Tail(bits))

InInt32(n) == n[1] >= -32768 /\ n[1] <= 32767

PlainValue(n) == n[1] * Limb + n[2]

\* The 16-bit length field of a frame of at least 40 bits, and the 8-bit one
\* of a frame of at least 32 bits.
Length16(frame) == Horner(0, BitsOf(SubSeq(frame, 25, 40)))

Length8(frame) == Horner(0, BitsOf(SubSeq(frame, 25, 32)))

\* The bits of the frame at 0-based positions from..to-1.
WireBits(frame, from, to) == BitsOf(SubSeq(frame, from + 1, to))

\* Those of them the frame holds.
PresentBits(frame, from, to) ==
    WireBits(frame, from, IF Len(frame) < to THEN Len(frame) ELSE to)

----------------------------------------------------------------------------
\* C1: for every accepted command number n, byte 2 of the returned frame
\* equals n & 0xFF: no carry of the checksum sum reaches byte 2.
C1_Byte2IsLowByteOfCommand ==
    Returned("generate_request_message")
        => FrameByte(request_message, 2) = LowByte(cmd_num)

\* C2: for every accepted command number n, the checksum byte (bits 24..31)
\* of the returned frame equals (0x52 + 0x51 + (n & 0xFF)) & 0xFF.
C2_ChecksumIsSumMod256 ==
    Returned("generate_request_message")
        => FrameByte(request_message, 3) = (82 + 81 + LowByte(cmd_num)) % 256

\* A frame whose three bytes sum beyond 8 bits was returned.
C2_Witness ==
    /\ Returned("generate_request_message")
    /\ 82 + 81 + LowByte(cmd_num) >= 256

C4_ParseReturnsPayloadAfterByte3 ==
    (/\ Called("parse_din_status_response")
     /\ Len(message) >= 32
     /\ Len(message) = 32 + 8 * Length8(message))
        => /\ raised = "none"
           /\ parsed_status = WireBits(message, 32, 32 + 8 * Length8(message))

\* C5 as stated: the parser raises for no string of '0' and '1', the empty
\* string and frames shorter than 40 bits included, and returns the part of
\* the payload that is present.
C5_ParseNeverRaises ==
    Called("parse_din_status_response")
        => /\ raised = "none"
           /\ parsed_status =
                PresentBits(message, 40,
                            40 + 8 * Horner(0, PresentBits(message, 24, 40)))

\* C5 as amended: the parser raises (the ValueError of int() on an empty
\* length field) exactly for the strings of at most 24 characters; for every
\* longer string it raises nothing and returns the payload bits present, the
\* length N being read from the bits present at 24..39.
C5_ParseRaisesOnlyWithoutLengthField ==
    Called("parse_din_status_response")
        => /\ (raised = LiteralError) <=> (Len(message) <= 24)
           /\ Len(message) >= 25
                => LET N == Horner(0, PresentBits(message, 24, 40))
                   IN  /\ raised = "none"
                       /\ parsed_status = PresentBits(message, 40, 40 + 8 * N)

\* A frame holding some, not all, of its declared payload was parsed.
C5_Witness ==
    /\ Returned("parse_din_status_response")
    /\ Len(message) >= 40
    /\ Len(parsed_status) > 0
    /\ Len(parsed_status) < 8 * Length16(message)

\* C6: the empty bit sequence converts to 0 without an error.
C6_EmptyArrayGivesZero ==
    (Called("din_status_to_32bit_signed_integer") /\ array = <<>>)
        => raised = "none" /\ data_field_int = <<0, 0>>

C8_ArrayLengthCheckAndRange ==
    Called("din_status_to_32bit_signed_integer")
        => /\ Len(array) > 32 => raised = ArrayError
           /\ Len(array) \in 1..32 => raised = "none" /\ InInt32(data_field_int)

\* A 33-element array was rejected.
C8_Witness ==
    /\ Called("din_status_to_32bit_signed_integer")
    /\ Len(array) = 33
    /\ raised = ArrayError

\* C9: for every accepted command number, negative ones included, the result
\* is 32 characters, each '0' or '1', starting with the 16 bits of "RQ" =
\* 0x5251; for 0x1F it is 01010010010100010001111111000010.
C9_FrameShape ==
    Returned("generate_request_message")
        => /\ Len(request_message) = 32
           /\ \A i \in 1..Len(request_message) : request_message[i] \in {"0", "1"}
           /\ FrameByte(request_message, 0) = 82
           /\ FrameByte(request_message, 1) = 81
           /\ cmd_num = <<0, 31>>
                => request_message =
                     <<"0","1","0","1","0","0","1","0", "0","1","0","1","0","0","0","1",
                       "0","0","0","1","1","1","1","1", "1","1","0","0","0","0","1","0">>

\* A frame was returned for a negative command number.
C9_Witness ==
    /\ Returned("generate_request_message")
    /\ IsNeg(cmd_num)

\* C10: for every width 1..32 the two-stage result equals the plain two's
\* complement value of the array at its own width; the 32-bit normalisation
\* leaves the first-stage value as it is, and all ones give -1.
C10_TwoStageIsTwosComplement ==
    (Called("din_status_to_32bit_signed_integer") /\ Len(array) \in 1..32)
        => /\ raised = "none"
           /\ InInt32(data_field_int)
           /\ PlainValue(data_field_int) = TwosComplement(array)
           /\ data_field_int = signed_value(array)
           /\ (\A i \in 1..Len(array) : array[i] = 1) => data_field_int = <<-1, 65535>>

\* An array narrower than 32 bits, its first bit set and not all ones, was
\* converted.
C10_Witness ==
    /\ Returned("din_status_to_32bit_signed_integer")
    /\ Len(array) \in 2..31
    /\ array[1] = 1
    /\ \E i \in 1..Len(array) : array[i] = 0

====
